---- MODULE Spec2Model ----
(***************************************************************************)
(* Model of lineage.Individual (src/lineage/individual.py): the table of   *)
(* SNPs an individual accumulates over successive load_snps calls.        *)
(*                                                                         *)
(* A pandas DataFrame is a sequence of rows (row order is state: it is     *)
(* what _sort_snps establishes); a row is a record                         *)
(*   [rsid, chrom, pos, genotype]                                          *)
(* with rsid the index label.  A genotype is a sequence of allele          *)
(* characters, <<"A","C">> for "AC"; NaN (a missing call, "--" in the      *)
(* file) is the empty sequence, which no parsed call ever is.              *)
(***************************************************************************)
EXTENDS Integers, Sequences, FiniteSets, TLC

VARIABLES
    snps,      \* self._snps: None or a DataFrame
    posT,      \* discrepant_snp_positions_threshold of the load_snps call
    genoT,     \* discrepant_genotypes_threshold of the load_snps call
    prev,      \* history: self._snps when the last _add_snps call began
    cand,      \* history: the table _read_raw_data returned to that call
    observed,  \* history: whether prev and cand record the last call
    first,     \* history: per rsid, what the first applied source carried
    nloads,    \* number of _add_snps calls made so far
    raw_data,  \* the argument raw_data of load_snps
    raised,    \* the exception the last load_snps call propagated, or "none"
    held,      \* what a reader of the snps property holds
    batch      \* self._snps of a second Individual, given raw_data in one call

vars == <<snps, posT, genoT, prev, cand, observed, first, nloads,
          raw_data, raised, held, batch>>

(***************************************************************************)
(* Bounds of the model.                                                    *)
(***************************************************************************)
MaxThreshold == 2     \* thresholds are drawn from 0..MaxThreshold
MaxLoads == 2         \* _add_snps calls in a behaviour of Spec, the last observed
MaxSeqLoads == 3      \* _add_snps calls in a behaviour of SpecSeq
MaxReloads == 2       \* loads of the same file in a behaviour of SpecReload
MaxOrdLoads == 2      \* _add_snps calls in a behaviour of SpecOrd
MaxLabels == 3        \* lines of a file of SpecRank
MaxBatch == 3         \* files in the list of SpecBatch
MaxArgLoads == 3      \* _add_snps calls after which SpecArg makes no call
MaxArgFiles == 2      \* files in a list or tuple of SpecArg
MaxReadLoads == 2     \* _add_snps calls of SpecRead
MaxBefore == 1        \* _add_snps calls of SpecTwice before the source is loaded

(***************************************************************************)
(* Values.                                                                 *)
(***************************************************************************)
None == [none |-> TRUE]
DataFrame(rows) == [rows |-> rows]

NaN == <<>>
IsNull(g) == g = NaN
StrLen(g) == Len(g)

\* index labels, in the order Python compares the strings
RsidOrder == <<"rs1", "rs2", "rs3">>
RSIDS == {RsidOrder[i] : i \in 1..Len(RsidOrder)}

(***************************************************************************)
(* Generic sequence helpers.                                               *)
(***************************************************************************)
\* sorted(seq, key=...) / sort_values: a stable sort under the strict order
\* less, the set of the pairs <<a, b>> with a before b
StableSort(seq, less) ==
    LET n == Len(seq)
        Before(j, i) == <<seq[j], seq[i]>> \in less
                           \/ (<<seq[i], seq[j]>> \notin less /\ j < i)
        Place(i) == Cardinality({j \in 1..n : Before(j, i)}) + 1
    IN  [p \in 1..n |-> seq[CHOOSE i \in 1..n : Place(i) = p]]

Index(df) == [i \in 1..Len(df) |-> df[i].rsid]
Keys(df) == {df[i].rsid : i \in 1..Len(df)}
Row(df, r) == df[CHOOSE i \in 1..Len(df) : df[i].rsid = r]

(***************************************************************************)
(* _natural_sort_key                                                       *)
(***************************************************************************)
\* the chromosome labels of the model, and their characters
LABELS == {"1", "2", "10", "X", "Y", "PAR", "MT"}

Chars(s) ==
    CASE s = "1"   -> <<"1">>
      [] s = "2"   -> <<"2">>
      [] s = "10"  -> <<"1", "0">>
      [] s = "X"   -> <<"X">>
      [] s = "Y"   -> <<"Y">>
      [] s = "PAR" -> <<"P", "A", "R">>
      [] s = "MT"  -> <<"M", "T">>

Digits == {"0", "1", "2", "3", "4", "5", "6", "7", "8", "9"}
DigitVal(c) ==
    CASE c = "0" -> 0 [] c = "1" -> 1 [] c = "2" -> 2 [] c = "3" -> 3
      [] c = "4" -> 4 [] c = "5" -> 5 [] c = "6" -> 6 [] c = "7" -> 7
      [] c = "8" -> 8 [] c = "9" -> 9

\* code point of c.lower(), for the letters the labels use
LowerOrd(c) ==
    CASE c = "A" -> 97  [] c = "M" -> 109 [] c = "P" -> 112 [] c = "R" -> 114
      [] c = "T" -> 116 [] c = "X" -> 120 [] c = "Y" -> 121

\* re.split('([0-9]+)', s): text, digits, text, ..., text; the text pieces may
\* be empty.  A piece is [digit |-> TRUE, val |-> int] or
\* [digit |-> FALSE, val |-> code points of the lowered text].
RECURSIVE SplitFrom(_, _, _, _)
SplitFrom(cs, i, inDigits, acc) ==
    LET last == acc[Len(acc)]
        init == SubSeq(acc, 1, Len(acc) - 1)
    IN  IF i > Len(cs)
        THEN IF inDigits THEN Append(acc, [digit |-> FALSE, val |-> <<>>]) ELSE acc
        ELSE IF cs[i] \in Digits
             THEN IF inDigits
                  THEN SplitFrom(cs, i + 1, TRUE,
                         Append(init, [digit |-> TRUE,
                                       val |-> 10 * last.val + DigitVal(cs[i])]))
                  ELSE SplitFrom(cs, i + 1, TRUE,
                         Append(acc, [digit |-> TRUE, val |-> DigitVal(cs[i])]))
             ELSE IF inDigits
                  THEN SplitFrom(cs, i + 1, FALSE,
                         Append(acc, [digit |-> FALSE, val |-> <<LowerOrd(cs[i])>>]))
                  ELSE SplitFrom(cs, i + 1, FALSE,
                         Append(init, [digit |-> FALSE,
                                       val |-> Append(last.val, LowerOrd(cs[i]))]))

NaturalSortKey(s) == SplitFrom(Chars(s), 1, FALSE, <<[digit |-> FALSE, val |-> <<>>]>>)

\* Python's < on two str (as code point sequences)
RECURSIVE TextLess(_, _)
TextLess(a, b) ==
    IF b = <<>> THEN FALSE
    ELSE IF a = <<>> THEN TRUE
    ELSE IF Head(a) # Head(b) THEN Head(a) < Head(b)
    ELSE TextLess(Tail(a), Tail(b))

\* Python's < on two key lists; pieces at the same place are of the same kind
RECURSIVE KeyLess(_, _)
KeyLess(k1, k2) ==
    IF k2 = <<>> THEN FALSE
    ELSE IF k1 = <<>> THEN TRUE
    ELSE IF Head(k1) # Head(k2)
         THEN IF Head(k1).digit THEN Head(k1).val < Head(k2).val
              ELSE TextLess(Head(k1).val, Head(k2).val)
    ELSE KeyLess(Tail(k1), Tail(k2))

(***************************************************************************)
(* _sort_snps                                                              *)
(***************************************************************************)
\* Series.unique(): the distinct labels in order of first appearance
Unique(labels) ==
    LET firstAt == {i \in 1..Len(labels) : \A j \in 1..(i - 1) : labels[j] # labels[i]}
        F[k \in 0..Len(labels)] ==
            IF k = 0 THEN <<>>
            ELSE IF k \in firstAt THEN Append(F[k - 1], labels[k]) ELSE F[k - 1]
    IN  F[Len(labels)]

\* mutant: the label stays where the natural order puts it
MoveToEndKept(list, x) == list

\* list.remove(x); list.append(x) when x is in the list
MoveToEnd(list, x) ==
    IF \E i \in 1..Len(list) : list[i] = x
    THEN Append(SelectSeq(list, LAMBDA y : y # x), x)
    ELSE list

\* the pairs of labels that key=_natural_sort_key puts in this order
NaturalLess ==
    {p \in LABELS \X LABELS : KeyLess(NaturalSortKey(p[1]), NaturalSortKey(p[2]))}

SortedList(df) ==
    LET chroms == [i \in 1..Len(df) |-> df[i].chrom]
        natural == StableSort(Unique(chroms), NaturalLess)
    IN  MoveToEnd(MoveToEnd(natural, "PAR"), "MT")

\* the code of a label in the ordered category
ChromRank(list, c) == CHOOSE i \in 1..Len(list) : list[i] = c

\* mutant: the rows are left in the order the merge gave them
SortSnpsNot(df) == df

SortSnps(df) ==
    LET list == SortedList(df)
        rows == {df[i] : i \in 1..Len(df)}
        less == {p \in rows \X rows :
                    \/ ChromRank(list, p[1].chrom) < ChromRank(list, p[2].chrom)
                    \/ (p[1].chrom = p[2].chrom /\ p[1].pos < p[2].pos)}
    IN  StableSort(df, less)

(***************************************************************************)
(* _double_single_alleles                                                  *)
(***************************************************************************)
\* mutant: the parsed table is used as it was read
DoubleSingleAllelesNot(df, chrom) == df

\* str * 2 on the rows of the chromosome whose genotype has length 1; the
\* length of NaN is NaN, which is not 1
DoubleSingleAlleles(df, chrom) ==
    [i \in 1..Len(df) |->
        IF df[i].chrom = chrom /\ ~IsNull(df[i].genotype) /\ StrLen(df[i].genotype) = 1
        THEN [df[i] EXCEPT !.genotype = @ \o @]
        ELSE df[i]]

(***************************************************************************)
(* _add_snps                                                               *)
(***************************************************************************)
\* self._snps.join(snps, how='inner', rsuffix='_added')
CommonSnps(self, added) ==
    LET both == SelectSeq(self, LAMBDA row : row.rsid \in Keys(added))
    IN  [i \in 1..Len(both) |->
            [rsid |-> both[i].rsid,
             chrom |-> both[i].chrom,
             pos |-> both[i].pos,
             genotype |-> both[i].genotype,
             chrom_added |-> Row(added, both[i].rsid).chrom,
             pos_added |-> Row(added, both[i].rsid).pos,
             genotype_added |-> Row(added, both[i].rsid).genotype]]

DiscrepantPositions(common) ==
    SelectSeq(common, LAMBDA c : c.chrom # c.chrom_added \/ c.pos # c.pos_added)

\* remove null genotypes
RemoveNull(common) ==
    SelectSeq(common, LAMBDA c : ~IsNull(c.genotype) /\ ~IsNull(c.genotype_added))

\* mutant: the swapped pairing is not tried
GenotypesDifferOrdered(g, h) ==
    \/ /\ StrLen(g) = 1
       /\ StrLen(h) = 1
       /\ ~(g[1] = h[1])
    \/ /\ StrLen(g) = 2
       /\ StrLen(h) = 2
       /\ ~(g[1] = h[1] /\ g[2] = h[2])

\* mutant: calls of lengths 1 and 2 that share no allele differ too
GenotypesDifferMixed(g, h) ==
    \/ /\ StrLen(g) = 1
       /\ StrLen(h) = 1
       /\ ~(g[1] = h[1])
    \/ /\ StrLen(g) = 2
       /\ StrLen(h) = 2
       /\ ~(g[1] = h[1] /\ g[2] = h[2])
       /\ ~(g[1] = h[2] /\ g[2] = h[1])
    \/ /\ {StrLen(g), StrLen(h)} = {1, 2}
       /\ \A i \in 1..StrLen(g) : \A j \in 1..StrLen(h) : g[i] # h[j]

\* alleles are not the same and not swapped
GenotypesDiffer(g, h) ==
    \/ /\ StrLen(g) = 1
       /\ StrLen(h) = 1
       /\ ~(g[1] = h[1])
    \/ /\ StrLen(g) = 2
       /\ StrLen(h) = 2
       /\ ~(g[1] = h[1] /\ g[2] = h[2])
       /\ ~(g[1] = h[2] /\ g[2] = h[1])

DiscrepantGenotypes(common) ==
    SelectSeq(common, LAMBDA c : GenotypesDiffer(c.genotype, c.genotype_added))

\* mutant: a left join, the labels of self only
IndexUnionLeft(a, b) == a

\* Index.union: self when the other index is empty or equal, the other when
\* self is empty, else the labels of both in ascending order
IndexUnion(a, b) ==
    IF b = <<>> \/ a = b THEN a
    ELSE IF a = <<>> THEN b
    ELSE LET labels == {a[i] : i \in 1..Len(a)} \cup {b[i] : i \in 1..Len(b)}
         IN  SelectSeq(RsidOrder, LAMBDA r : r \in labels)

\* mutant: snps.combine_first(self._snps), the values of the candidate win
CombineSecond(self, other) ==
    LET idx == IndexUnion(Index(self), Index(other))
    IN  [i \in 1..Len(idx) |->
            IF idx[i] \in Keys(other)
            THEN LET theirs == Row(other, idx[i])
                 IN  IF IsNull(theirs.genotype) /\ idx[i] \in Keys(self)
                     THEN [theirs EXCEPT !.genotype = Row(self, idx[i]).genotype]
                     ELSE theirs
            ELSE Row(self, idx[i])]

\* mutant: rows are appended, missing values of self are not filled
CombineNoFill(self, other) ==
    LET idx == IndexUnion(Index(self), Index(other))
    IN  [i \in 1..Len(idx) |->
            IF idx[i] \in Keys(self) THEN Row(self, idx[i]) ELSE Row(other, idx[i])]

\* DataFrame.combine_first: over the union of the indexes, the value of self
\* where self has a non-null one, else the value of other.  chrom and pos
\* are never null in a parsed row.
CombineFirst(self, other) ==
    LET idx == IndexUnion(Index(self), Index(other))
    IN  [i \in 1..Len(idx) |->
            IF idx[i] \in Keys(self)
            THEN LET mine == Row(self, idx[i])
                 IN  IF IsNull(mine.genotype) /\ idx[i] \in Keys(other)
                     THEN [mine EXCEPT !.genotype = Row(other, idx[i]).genotype]
                     ELSE mine
            ELSE Row(other, idx[i])]

\* mutant: the discrepant genotypes are left as they are
SetGenotypeKept(df, index) == df

\* df.loc[index, 'genotype'] = np.nan
SetGenotypeNaN(df, index) ==
    [i \in 1..Len(df) |->
        IF \E k \in 1..Len(index) : index[k] = df[i].rsid
        THEN [df[i] EXCEPT !.genotype = NaN]
        ELSE df[i]]

\* mutants: the abort starts above the threshold
PositionsAbortAbove(n, threshold) == ~(0 < n /\ n < threshold) /\ n > threshold
GenotypesAbortAbove(n, threshold) == ~(0 < n /\ n < threshold) /\ n > threshold

\* the first branch of each if/elif only prints
PositionsAbort(n, threshold) == ~(0 < n /\ n < threshold) /\ n >= threshold
GenotypesAbort(n, threshold) == ~(0 < n /\ n < threshold) /\ n >= threshold

\* mutant: the genotype columns are compared with != and the null genotypes
\* are not removed first (a null differs from every call)
AddSnpsNullsCounted(self, parsed, positionsThreshold, genotypesThreshold) ==
    IF parsed = None
    THEN [snps |-> self, how |-> "skipped"]
    ELSE LET added == DoubleSingleAlleles(parsed.rows, "X")
         IN  IF self = None
             THEN [snps |-> DataFrame(SortSnps(added)), how |-> "adopted"]
             ELSE LET common == CommonSnps(self.rows, added)
                      positions == DiscrepantPositions(common)
                      genotypes ==
                          SelectSeq(common,
                                    LAMBDA c : \/ IsNull(c.genotype) # IsNull(c.genotype_added)
                                               \/ GenotypesDiffer(c.genotype, c.genotype_added))
                  IN  IF PositionsAbort(Len(positions), positionsThreshold)
                      THEN [snps |-> self, how |-> "positions"]
                      ELSE IF GenotypesAbort(Len(genotypes), genotypesThreshold)
                      THEN [snps |-> self, how |-> "genotypes"]
                      ELSE [snps |-> DataFrame(SortSnps(
                                        SetGenotypeNaN(CombineFirst(self.rows, added),
                                                       Index(genotypes)))),
                            how |-> "merged"]

\* The value of self._snps when _add_snps(parsed, ...) returns, and the way
\* the call ended.
AddSnps(self, parsed, positionsThreshold, genotypesThreshold) ==
    IF parsed = None
    THEN [snps |-> self, how |-> "skipped"]
    ELSE LET added == DoubleSingleAlleles(parsed.rows, "X")
         IN  IF self = None
             THEN [snps |-> DataFrame(SortSnps(added)), how |-> "adopted"]
             ELSE LET common == CommonSnps(self.rows, added)
                      positions == DiscrepantPositions(common)
                      genotypes == DiscrepantGenotypes(RemoveNull(common))
                  IN  IF PositionsAbort(Len(positions), positionsThreshold)
                      THEN [snps |-> self, how |-> "positions"]
                      ELSE IF GenotypesAbort(Len(genotypes), genotypesThreshold)
                      THEN [snps |-> self, how |-> "genotypes"]
                      ELSE [snps |-> DataFrame(SortSnps(
                                        SetGenotypeNaN(CombineFirst(self.rows, added),
                                                       Index(genotypes)))),
                            how |-> "merged"]

(***************************************************************************)
(* History: what the first applied source carried for each rsid, and       *)
(* whether a later applied source carried other coordinates for it.        *)
(***************************************************************************)
Unseen == [seen |-> FALSE]

Recorded(old, parsed) ==
    LET added == DoubleSingleAlleles(parsed.rows, "X")
    IN  [r \in RSIDS |->
            IF r \notin Keys(added) THEN old[r]
            ELSE LET row == Row(added, r)
                 IN  IF ~old[r].seen
                     THEN [seen |-> TRUE, chrom |-> row.chrom, pos |-> row.pos,
                           genotype |-> row.genotype, differed |-> FALSE]
                     ELSE [old[r] EXCEPT
                             !.genotype = IF IsNull(@) THEN row.genotype ELSE @,
                             !.differed = @ \/ row.chrom # old[r].chrom
                                            \/ row.pos # old[r].pos]]

(***************************************************************************)
(* The tables _read_raw_data can return.  The genotype column of a parsed  *)
(* table holds at least one call: a column of missing values only is read  *)
(* as a float column, on which the .str accessor of _double_single_alleles *)
(* is not defined.                                                         *)
(***************************************************************************)
COORDS == {<<"1", 1>>, <<"1", 2>>, <<"X", 1>>}
GENOS == {NaN, <<"A">>, <<"C">>, <<"A", "C">>, <<"C", "A">>, <<"C", "C">>}
SINGLES == {NaN, <<"A">>, <<"C">>}

\* the rows a file can hold for an rsid: rs1 anywhere with any call, the
\* others on chromosome 1 with one-allele calls
RowsOf(r) ==
    IF r = RsidOrder[1]
    THEN {[rsid |-> r, chrom |-> c[1], pos |-> c[2], genotype |-> g] :
             c \in COORDS, g \in GENOS}
    ELSE {[rsid |-> r, chrom |-> c[1], pos |-> c[2], genotype |-> g] :
             c \in {d \in COORDS : d[1] = "1"}, g \in SINGLES}

\* the tables with index S, rows in ascending order of rsid
TablesOn(S) ==
    LET idx == SelectSeq(RsidOrder, LAMBDA r : r \in S)
    IN  {t \in [1..Len(idx) -> UNION {RowsOf(r) : r \in S}] :
            \A i \in 1..Len(idx) : t[i].rsid = idx[i]}

HasCall(df) == \E i \in 1..Len(df) : ~IsNull(df[i].genotype)

Tables ==
    {t \in UNION {TablesOn(S) : S \in (SUBSET {RsidOrder[1], RsidOrder[2]}) \ {{}}} :
        HasCall(t)}

ParsedFiles == {DataFrame(t) : t \in Tables} \cup {None}
Thresholds == 0..MaxThreshold

(***************************************************************************)
(* The state machine.                                                      *)
(***************************************************************************)
\* Individual.__init__ with raw_data=None, at the start of a call
\* load_snps(files, posT, genoT)
Init ==
    /\ snps = None
    /\ posT \in Thresholds
    /\ genoT \in Thresholds
    /\ prev = None
    /\ cand = None
    /\ observed = FALSE
    /\ first = [r \in RSIDS |-> Unseen]
    /\ nloads = 0
    /\ raw_data = <<>>
    /\ raised = "none"
    /\ held = None
    /\ batch = None

\* one file of the list given to load_snps:
\* self._add_snps(self._read_raw_data(file), posT, genoT)
LoadSnps(parsed) ==
    \E result \in {AddSnps(snps, parsed, posT, genoT)} :
        /\ snps' = result.snps
        /\ first' = IF result.how \in {"adopted", "merged"}
                    THEN Recorded(first, parsed) ELSE first
        /\ nloads' = nloads + 1
        /\ UNCHANGED <<posT, genoT, raw_data, raised, held, batch>>

\* the files of the list before the last one
LoadBefore ==
    /\ nloads + 1 < MaxLoads
    /\ ~observed
    /\ \E parsed \in ParsedFiles : LoadSnps(parsed)
    /\ UNCHANGED <<prev, cand, observed>>

\* the last file of the list, with the history of the call
Load ==
    /\ nloads < MaxLoads
    /\ ~observed
    /\ \E parsed \in ParsedFiles :
          /\ LoadSnps(parsed)
          /\ prev' = snps
          /\ cand' = parsed
    /\ observed' = TRUE

Next == LoadBefore \/ Load

Spec == Init /\ [][Next]_vars

\* longer lists of files, without the history of a call
LoadSeq ==
    /\ nloads < MaxSeqLoads
    /\ \E parsed \in ParsedFiles : LoadSnps(parsed)
    /\ UNCHANGED <<prev, cand, observed>>

NextSeq == LoadSeq

SpecSeq == Init /\ [][NextSeq]_vars

(***************************************************************************)
(* The same file loaded again and again.  The lines of a file come in any  *)
(* order, each rsid once, with or without a call.                          *)
(***************************************************************************)
ReloadRows ==
    {[rsid |-> r, chrom |-> c[1], pos |-> c[2], genotype |-> g] :
        r \in RSIDS, c \in COORDS, g \in {NaN, <<"A">>}}

ReloadTables ==
    {t \in UNION {[1..n -> ReloadRows] : n \in 1..Len(RsidOrder)} :
        /\ \A i, j \in 1..Len(t) : i # j => t[i].rsid # t[j].rsid
        /\ HasCall(t)}

\* a new Individual and the file it is given
InitReload ==
    /\ snps = None
    /\ posT \in Thresholds
    /\ genoT \in Thresholds
    /\ prev = None
    /\ cand \in {DataFrame(t) : t \in ReloadTables}
    /\ observed = FALSE
    /\ first = [r \in RSIDS |-> Unseen]
    /\ nloads = 0
    /\ raw_data = <<>>
    /\ raised = "none"
    /\ held = None
    /\ batch = None

\* load_snps(file, posT, genoT) with the same file; prev is the table the
\* earlier loads left
Reload ==
    /\ nloads < MaxReloads
    /\ LoadSnps(cand)
    /\ prev' = snps
    /\ UNCHANGED <<cand, observed>>

NextReload == Reload

SpecReload == InitReload /\ [][NextReload]_vars

(***************************************************************************)
(* Files over more chromosomes, their lines in any order, for the order of *)
(* the rows.                                                               *)
(***************************************************************************)
OrdCoords ==
    {<<"2", 1>>, <<"2", 2>>, <<"10", 1>>, <<"X", 1>>, <<"PAR", 1>>, <<"MT", 1>>}

OrdRows ==
    {[rsid |-> r, chrom |-> c[1], pos |-> c[2], genotype |-> <<"A", "A">>] :
        r \in RSIDS, c \in OrdCoords}

\* files of one or two lines
OrdTables ==
    {t \in [1..1 -> OrdRows] \cup [1..2 -> OrdRows] :
        \A i, j \in 1..Len(t) : i # j => t[i].rsid # t[j].rsid}

OrdFiles == {DataFrame(t) : t \in OrdTables} \cup {None}

LoadOrd ==
    /\ nloads < MaxOrdLoads
    /\ \E parsed \in OrdFiles : LoadSnps(parsed)
    /\ UNCHANGED <<prev, cand, observed>>

NextOrd == LoadOrd

SpecOrd == Init /\ [][NextOrd]_vars

(***************************************************************************)
(* _sort_snps on the chromosome column of one file: a new Individual       *)
(* adopts a file whose lines carry the given labels, all at one position.  *)
(***************************************************************************)
RankRsids == <<"rs1", "rs2", "rs3", "rs4", "rs5", "rs6">>

TableOfLabels(labels) ==
    [i \in 1..Len(labels) |->
        [rsid |-> RankRsids[i], chrom |-> labels[i], pos |-> 1, genotype |-> <<"A", "A">>]]

RankLabels ==
    UNION {[1..n -> LABELS] : n \in 1..MaxLabels}
        \cup {<<"2", "1", "10", "X", "MT", "PAR">>}

InitRank ==
    /\ snps = None
    /\ posT \in Thresholds
    /\ genoT \in Thresholds
    /\ prev = None
    /\ cand \in {DataFrame(TableOfLabels(labels)) : labels \in RankLabels}
    /\ observed = FALSE
    /\ first = [r \in RSIDS |-> Unseen]
    /\ nloads = 0
    /\ raw_data = <<>>
    /\ raised = "none"
    /\ held = None
    /\ batch = None

\* load_snps(file) on the new Individual
Adopt ==
    /\ nloads = 0
    /\ LoadSnps(cand)
    /\ UNCHANGED <<prev, cand, observed>>

NextRank == Adopt

SpecRank == InitRank /\ [][NextRank]_vars

(***************************************************************************)
(* Files that list an rsid on more than one line: read_csv keeps both      *)
(* lines under the same index label.  What a merge does with such a table  *)
(* is not modelled: the file is the first one a new Individual is given.   *)
(***************************************************************************)
DupRows ==
    {[rsid |-> r, chrom |-> c[1], pos |-> c[2], genotype |-> g] :
        r \in {RsidOrder[1], RsidOrder[2]}, c \in COORDS, g \in {NaN, <<"A">>}}

DupTables == {t \in [1..1 -> DupRows] \cup [1..2 -> DupRows] : HasCall(t)}

DupFiles == {DataFrame(t) : t \in DupTables} \cup {None}

AdoptFile ==
    /\ snps = None
    /\ nloads = 0
    /\ \E parsed \in DupFiles : LoadSnps(parsed)
    /\ UNCHANGED <<prev, cand, observed>>

NextDup == AdoptFile

SpecDup == Init /\ [][NextDup]_vars

(***************************************************************************)
(* load_snps and _read_raw_data.  A file is what is found at a path:       *)
(* nothing, content whose first line carries no known signature, content   *)
(* of a known format on which read_csv raises, or a table.  The first line *)
(* of every existing file can be read.                                     *)
(***************************************************************************)
Missing == [kind |-> "missing"]
Unrecognized == [kind |-> "unrecognized"]
Malformed == [kind |-> "malformed"]
TableFile(t) == [kind |-> "table", table |-> t]

\* mutant: a file that gives no table is read as a table without rows
ReadRawDataEmpty(file) ==
    IF file.kind = "table" THEN DataFrame(file.table) ELSE DataFrame(<<>>)

\* os.path.exists fails: None; no signature in the first line: None; the
\* parser returns the table, or None when read_csv raised
ReadRawData(file) ==
    IF file.kind = "missing" THEN None
    ELSE IF file.kind = "unrecognized" THEN None
    ELSE IF file.kind = "malformed" THEN None
    ELSE DataFrame(file.table)

\* the argument raw_data, by its type
StrArg(file) == [type |-> "str", file |-> file]
ListArg(files) == [type |-> "list", files |-> files]
TupleArg(files) == [type |-> "tuple", files |-> files]
PathArg(file) == [type |-> "PosixPath", file |-> file]
NoneArg == [type |-> "NoneType"]

\* mutant: the loop ends at the first file whose merge is aborted
RECURSIVE AddEachUntilAbort(_, _, _, _)
AddEachUntilAbort(self, files, positionsThreshold, genotypesThreshold) ==
    IF files = <<>> THEN self
    ELSE LET result == AddSnps(self, ReadRawData(Head(files)),
                               positionsThreshold, genotypesThreshold)
         IN  IF result.how \in {"positions", "genotypes"} THEN self
             ELSE AddEachUntilAbort(result.snps, Tail(files),
                                    positionsThreshold, genotypesThreshold)

\* for file in raw_data: self._add_snps(self._read_raw_data(file), ...)
RECURSIVE AddEach(_, _, _, _)
AddEach(self, files, positionsThreshold, genotypesThreshold) ==
    IF files = <<>> THEN self
    ELSE AddEach(AddSnps(self, ReadRawData(Head(files)),
                         positionsThreshold, genotypesThreshold).snps,
                 Tail(files), positionsThreshold, genotypesThreshold)

\* mutant: an argument of another type is ignored
LoadSnpsCallLenient(self, raw, positionsThreshold, genotypesThreshold) ==
    IF raw.type = "list"
    THEN [snps |-> AddEach(self, raw.files, positionsThreshold, genotypesThreshold),
          raised |-> "none", calls |-> Len(raw.files)]
    ELSE IF raw.type = "str"
    THEN [snps |-> AddSnps(self, ReadRawData(raw.file),
                           positionsThreshold, genotypesThreshold).snps,
          raised |-> "none", calls |-> 1]
    ELSE [snps |-> self, raised |-> "none", calls |-> 0]

\* load_snps(raw_data, positionsThreshold, genotypesThreshold): self._snps
\* when the call ends, the exception it propagates and the number of
\* _add_snps calls it made
LoadSnpsCall(self, raw, positionsThreshold, genotypesThreshold) ==
    IF raw.type = "list"
    THEN [snps |-> AddEach(self, raw.files, positionsThreshold, genotypesThreshold),
          raised |-> "none", calls |-> Len(raw.files)]
    ELSE IF raw.type = "str"
    THEN [snps |-> AddSnps(self, ReadRawData(raw.file),
                           positionsThreshold, genotypesThreshold).snps,
          raised |-> "none", calls |-> 1]
    ELSE [snps |-> self, raised |-> "TypeError", calls |-> 0]

(***************************************************************************)
(* A list of files given to one Individual in one call (batch) and to      *)
(* another one file per call (snps).                                       *)
(***************************************************************************)
BatchTables ==
    {t \in Tables :
        \A i \in 1..Len(t) :
            /\ t[i].chrom = "1"
            /\ t[i].genotype \in {<<"A">>, <<"C">>}
            /\ t[i].rsid = RsidOrder[1] => ~(t[i].pos = 2 /\ t[i].genotype = <<"C">>)
            /\ t[i].rsid = RsidOrder[2] => (t[i].pos = 1 /\ t[i].genotype = <<"A">>)}

BatchFiles == {Missing, Unrecognized, Malformed} \cup {TableFile(t) : t \in BatchTables}

InitBatch ==
    /\ snps = None
    /\ posT \in Thresholds
    /\ genoT \in Thresholds
    /\ prev = None
    /\ cand = None
    /\ observed = FALSE
    /\ first = [r \in RSIDS |-> Unseen]
    /\ nloads = 0
    /\ raw_data \in {ListArg(files) :
                        files \in UNION {[1..n -> BatchFiles] : n \in 1..MaxBatch}}
    /\ raised = "none"
    /\ held = None
    /\ batch = [snps |-> None, calls |-> 0]

\* load_snps(raw_data, posT, genoT) on the second Individual
LoadList ==
    /\ batch.calls = 0
    /\ batch' = [snps |-> LoadSnpsCall(batch.snps, raw_data, posT, genoT).snps,
                 calls |-> 1]
    /\ UNCHANGED <<snps, posT, genoT, prev, cand, observed, first, nloads,
                   raw_data, raised, held>>

\* load_snps(file, posT, genoT) on the first Individual, for the next file of
\* the list; prev is the table the call found
LoadEach ==
    /\ nloads < Len(raw_data.files)
    /\ \E result \in {LoadSnpsCall(snps, StrArg(raw_data.files[nloads + 1]), posT, genoT)} :
          /\ snps' = result.snps
          /\ raised' = result.raised
          /\ nloads' = nloads + result.calls
    /\ prev' = snps
    /\ UNCHANGED <<posT, genoT, cand, observed, first, raw_data, held, batch>>

NextBatch == LoadList \/ LoadEach

SpecBatch == InitBatch /\ [][NextBatch]_vars

(***************************************************************************)
(* load_snps called with arguments of any type: a str, a pathlib path, a   *)
(* list or a tuple of str, None.                                           *)
(***************************************************************************)
ArgFiles == {Missing} \cup {TableFile(t) : t \in {u \in BatchTables : Len(u) = 1}}

ArgFileLists == UNION {[1..n -> ArgFiles] : n \in 0..MaxArgFiles}

Args ==
    {StrArg(f) : f \in ArgFiles} \cup {PathArg(f) : f \in ArgFiles}
        \cup {ListArg(fs) : fs \in ArgFileLists}
        \cup {TupleArg(fs) : fs \in ArgFileLists}
        \cup {NoneArg}

\* load_snps(raw, posT, genoT); prev is the table the call found
CallLoadSnps ==
    /\ nloads < MaxArgLoads
    /\ \E raw \in Args :
          \E result \in {LoadSnpsCall(snps, raw, posT, genoT)} :
             /\ raw_data' = raw
             /\ snps' = result.snps
             /\ raised' = result.raised
             /\ nloads' = nloads + result.calls
    /\ prev' = snps
    /\ UNCHANGED <<posT, genoT, cand, observed, first, held, batch>>

NextArg == CallLoadSnps

SpecArg == Init /\ [][NextArg]_vars

(***************************************************************************)
(* The snps property and a reader.  The reader holds an object: alias says *)
(* whether it is the object self._snps is bound to, table is its content.  *)
(* The reader changes its object in place; a load that adopts or merges    *)
(* binds self._snps to a new object (lines 268, 309, 363) and writes to    *)
(* the new object only.                                                    *)
(***************************************************************************)
\* mutant: the property returns self._snps itself
CopyNot(df) == [alias |-> TRUE, table |-> df]

\* DataFrame.copy(): another object with the same content
Copy(df) == [alias |-> FALSE, table |-> df]

\* the property snps
SnpsProperty(self) == IF self # None THEN Copy(self) ELSE None

ReadFiles == {DataFrame(t) : t \in BatchTables} \cup {None}

\* a genotype no file holds, written by the reader
Written == <<"T", "T">>

\* held = Individual.snps
ReadSnps ==
    /\ held' = SnpsProperty(snps)
    /\ UNCHANGED <<snps, posT, genoT, prev, cand, observed, first, nloads,
                   raw_data, raised, batch>>

\* held.loc[rsid, 'genotype'] = 'TT', by the reader
MutateHeld ==
    /\ held # None
    /\ \E i \in 1..Len(held.table.rows) :
          /\ held.table.rows[i].genotype # Written
          /\ \E changed \in {DataFrame([held.table.rows EXCEPT ![i].genotype = Written])} :
                /\ held' = [held EXCEPT !.table = changed]
                /\ snps' = IF held.alias THEN changed ELSE snps
    /\ UNCHANGED <<posT, genoT, prev, cand, observed, first, nloads,
                   raw_data, raised, batch>>

\* a file is loaded while the reader holds its object
LoadHeld ==
    /\ nloads < MaxReadLoads
    /\ \E parsed \in ReadFiles :
          \E result \in {AddSnps(snps, parsed, posT, genoT)} :
             /\ snps' = result.snps
             /\ first' = IF result.how \in {"adopted", "merged"}
                         THEN Recorded(first, parsed) ELSE first
             /\ held' = IF held # None /\ result.how \in {"adopted", "merged"}
                        THEN [held EXCEPT !.alias = FALSE] ELSE held
    /\ nloads' = nloads + 1
    /\ UNCHANGED <<posT, genoT, prev, cand, observed, raw_data, raised, batch>>

NextRead == ReadSnps \/ MutateHeld \/ LoadHeld

SpecRead == Init /\ [][NextRead]_vars

(***************************************************************************)
(* A source loaded twice in succession into a table that earlier loads     *)
(* left: cand is the source, prev the table after its first load.          *)
(***************************************************************************)
\* the loads that make the table the source meets
LoadEarlier ==
    /\ nloads < MaxBefore
    /\ cand = None
    /\ \E parsed \in ParsedFiles : LoadSnps(parsed)
    /\ UNCHANGED <<prev, cand, observed>>

\* load_snps(S, posT, genoT), the first time
LoadSource ==
    /\ cand = None
    /\ \E parsed \in ParsedFiles \ {None} :
          /\ LoadSnps(parsed)
          /\ cand' = parsed
    /\ UNCHANGED <<prev, observed>>

\* load_snps(S, posT, genoT), the second time
LoadSourceAgain ==
    /\ cand # None
    /\ ~observed
    /\ LoadSnps(cand)
    /\ prev' = snps
    /\ observed' = TRUE
    /\ UNCHANGED cand

NextTwice == LoadEarlier \/ LoadSource \/ LoadSourceAgain

SpecTwice == Init /\ [][NextTwice]_vars

(***************************************************************************)
(* The last call, as the claims speak of it: tables as maps from rsid,     *)
(* the candidate after hemizygous doubling, and the discrepancy counts     *)
(* D_p and D_g.                                                            *)
(***************************************************************************)
Rec(df, r) == CHOOSE row \in {df[i] : i \in 1..Len(df)} : row.rsid = r

\* the last call merged a candidate into an existing table
Merging == observed /\ prev # None /\ cand # None

Old == prev.rows
New == snps.rows
Cnd ==
    [i \in 1..Len(cand.rows) |->
        LET row == cand.rows[i]
        IN  IF row.chrom = "X" /\ Len(row.genotype) = 1
            THEN [row EXCEPT !.genotype = <<row.genotype[1], row.genotype[1]>>]
            ELSE row]

Common == Keys(Old) \cap Keys(Cnd)
OnlyOld == Keys(Old) \ Keys(Cnd)
OnlyCnd == Keys(Cnd) \ Keys(Old)

SameCoords(a, b) == a.chrom = b.chrom /\ a.pos = b.pos
Swapped(g) == <<g[2], g[1]>>

\* the discrepancy rule of the specification
Conflict(g, h) ==
    /\ g # NaN
    /\ h # NaN
    /\ \/ Len(g) = 1 /\ Len(h) = 1 /\ g # h
       \/ Len(g) = 2 /\ Len(h) = 2 /\ g # h /\ g # Swapped(h)

PosDiscrepant == {r \in Common : ~SameCoords(Rec(Old, r), Rec(Cnd, r))}
GenoDiscrepant == {r \in Common : Conflict(Rec(Old, r).genotype, Rec(Cnd, r).genotype)}
Dp == Cardinality(PosDiscrepant)
Dg == Cardinality(GenoDiscrepant)

\* the last call merged and neither check aborted it
Applied == Merging /\ Dp < posT /\ Dg < genoT

(***************************************************************************)
(* C1: when a candidate is merged into an existing table and D_p >=        *)
(* posThreshold, the table after the call is the table before it; D_p =    *)
(* posThreshold already aborts, D_p = posThreshold - 1 does not (if the    *)
(* genotype check does not abort either, the candidate's keys are there).  *)
(***************************************************************************)
PositionAbortLeavesTable ==
    Merging =>
        /\ Dp >= posT => snps = prev
        /\ (Dp = posT - 1 /\ Dg < genoT) => Keys(New) = Keys(Old) \cup Keys(Cnd)

\* an abort at exactly D_p = posThreshold that kept out a new key, a
\* differing position and a call for a missing genotype
PositionAbortWitness ==
    /\ Merging
    /\ posT = 2
    /\ Dp = posT
    /\ Dg < genoT
    /\ snps = prev
    /\ \E r \in Common : IsNull(Rec(Old, r).genotype) /\ ~IsNull(Rec(Cnd, r).genotype)

(***************************************************************************)
(* C2: when the position check did not abort and D_g >= genoThreshold,     *)
(* the table after the call is the table before it: no key of the          *)
(* candidate is added and nothing of the position handling is applied.     *)
(***************************************************************************)
GenotypeAbortLeavesTable ==
    (Merging /\ Dp < posT /\ Dg >= genoT) => snps = prev

\* an abort at D_g = genoThreshold > 0 that kept out a new key, below the
\* position threshold with a differing position
GenotypeAbortWitness ==
    /\ Merging
    /\ 0 < Dp
    /\ Dp < posT
    /\ genoT > 0
    /\ Dg = genoT
    /\ OnlyCnd # {}
    /\ snps = prev

(***************************************************************************)
(* C3: in a merge with 0 < D_p < posThreshold that the genotype check does *)
(* not abort, every common rsid whose chromosome or position differs keeps *)
(* the chromosome and position of the accumulated table, and the rest of   *)
(* the merge is applied: the candidate's own keys are added as they are.   *)
(***************************************************************************)
OriginalPositionsKept ==
    (Merging /\ 0 < Dp /\ Dp < posT /\ Dg < genoT) =>
        /\ \A r \in PosDiscrepant : SameCoords(Rec(New, r), Rec(Old, r))
        /\ Keys(New) = Keys(Old) \cup Keys(Cnd)
        /\ \A r \in OnlyCnd : Rec(New, r) = Rec(Cnd, r)

\* a merge below the threshold with a differing position, a differing
\* chromosome elsewhere or a new key
OriginalPositionsWitness ==
    /\ Merging
    /\ 0 < Dp
    /\ Dp < posT
    /\ Dg < genoT
    /\ \E r \in PosDiscrepant : Rec(Old, r).pos # Rec(Cnd, r).pos
    /\ OnlyCnd # {}
    /\ OnlyCnd \subseteq Keys(New)

(***************************************************************************)
(* C4: in a merge that is not aborted, with 0 < D_g < genoThreshold, the   *)
(* genotype is null afterwards for every rsid counted as discrepant, and   *)
(* no other non-null genotype of the accumulated table becomes null.       *)
(***************************************************************************)
DiscrepantGenotypesNulled ==
    (Applied /\ 0 < Dg) =>
        \A r \in Keys(Old) :
            /\ r \in GenoDiscrepant => IsNull(Rec(New, r).genotype)
            /\ (r \notin GenoDiscrepant /\ ~IsNull(Rec(Old, r).genotype))
                   => ~IsNull(Rec(New, r).genotype)

\* one rsid nulled, while another common rsid with calls on both sides kept
\* its genotype
DiscrepantGenotypesWitness ==
    /\ Applied
    /\ Dg = 1
    /\ \A r \in GenoDiscrepant : IsNull(Rec(New, r).genotype)
    /\ \E r \in Common \ GenoDiscrepant :
          /\ ~IsNull(Rec(Old, r).genotype)
          /\ ~IsNull(Rec(Cnd, r).genotype)
          /\ Rec(New, r).genotype = Rec(Old, r).genotype

(***************************************************************************)
(* C5: in a merge that is not aborted, for every common rsid the           *)
(* chromosome, the position and a non-null genotype of the accumulated     *)
(* table are not replaced by the candidate's, except that a genotype       *)
(* counted as discrepant becomes null; a genotype that is null in the      *)
(* accumulated table and not in the candidate is filled from the           *)
(* candidate.                                                              *)
(***************************************************************************)
FillMissingOnly ==
    Applied =>
        \A r \in Common :
            LET old == Rec(Old, r)
                new == Rec(New, r)
                cnd == Rec(Cnd, r)
            IN  /\ SameCoords(new, old)
                /\ ~IsNull(old.genotype) =>
                       new.genotype = IF r \in GenoDiscrepant THEN NaN ELSE old.genotype
                /\ (IsNull(old.genotype) /\ ~IsNull(cnd.genotype)) =>
                       new.genotype = cnd.genotype

\* one genotype filled from the candidate, another kept against a different
\* genotype string of the candidate
FillMissingWitness ==
    /\ Applied
    /\ \E r \in Common :
          /\ IsNull(Rec(Old, r).genotype)
          /\ Rec(New, r).genotype = Rec(Cnd, r).genotype
          /\ ~IsNull(Rec(New, r).genotype)
    /\ \E r \in Common :
          /\ ~IsNull(Rec(Old, r).genotype)
          /\ ~IsNull(Rec(Cnd, r).genotype)
          /\ Rec(Cnd, r).genotype # Rec(Old, r).genotype
          /\ Rec(New, r).genotype = Rec(Old, r).genotype

(***************************************************************************)
(* C6: after a merge that is not aborted the keys of the table are the     *)
(* keys it had and the keys of the candidate; an rsid of the accumulated   *)
(* table only keeps its row, an rsid of the candidate only is added with   *)
(* the candidate's normalized row.                                         *)
(***************************************************************************)
OneSidedKeysPassThrough ==
    Applied =>
        /\ Keys(New) = Keys(Old) \cup Keys(Cnd)
        /\ \A r \in OnlyOld : Rec(New, r) = Rec(Old, r)
        /\ \A r \in OnlyCnd : Rec(New, r) = Rec(Cnd, r)

\* a key on each side only, the candidate's with a doubled genotype
OneSidedKeysWitness ==
    /\ Applied
    /\ OnlyOld # {}
    /\ \E r \in OnlyCnd :
          /\ r \in Keys(New)
          /\ Rec(cand.rows, r).genotype = <<"A">>
          /\ Rec(New, r).genotype = <<"A", "A">>

(***************************************************************************)
(* C7: for a common rsid with two calls of the same length, the genotypes  *)
(* are discrepant iff, for length 1, the characters differ and, for        *)
(* length 2, they are neither equal nor equal after swapping the alleles   *)
(* of one: these rsids are the ones counted against genoThreshold and      *)
(* nulled, the others keep the accumulated genotype ("AG" against "GA"     *)
(* stays "AG").                                                            *)
(***************************************************************************)
AlleleOrderInsensitive ==
    (Merging /\ Dp < posT) =>
        LET sameLen == {r \in Common :
                           /\ ~IsNull(Rec(Old, r).genotype)
                           /\ ~IsNull(Rec(Cnd, r).genotype)
                           /\ Len(Rec(Old, r).genotype) = Len(Rec(Cnd, r).genotype)}
            differ == {r \in sameLen :
                           LET g == Rec(Old, r).genotype
                               h == Rec(Cnd, r).genotype
                           IN  IF Len(g) = 1 THEN g[1] # h[1]
                               ELSE ~(g = h \/ g = <<h[2], h[1]>>)}
        IN  /\ Cardinality(differ) >= genoT => snps = prev
            /\ Cardinality(differ) < genoT =>
                  \A r \in sameLen :
                      Rec(New, r).genotype =
                          IF r \in differ THEN NaN ELSE Rec(Old, r).genotype

\* "AC" met "CA" under a genotype threshold of 1: the merge went through
\* (the candidate's new key is there) and "AC" stayed
AlleleOrderWitness ==
    /\ Merging
    /\ Dp < posT
    /\ genoT = 1
    /\ OnlyCnd # {}
    /\ OnlyCnd \subseteq Keys(New)
    /\ \E r \in Common :
          /\ Rec(Old, r).genotype = <<"A", "C">>
          /\ Rec(Cnd, r).genotype = <<"C", "A">>
          /\ Rec(New, r).genotype = <<"A", "C">>

(***************************************************************************)
(* Two sources in both orders.  After two calls of which the second        *)
(* merged, prev is the first source as adopted (A) and cand the second     *)
(* (B); Reversed is the table after loading B and then A.                  *)
(***************************************************************************)
TwoSources == nloads = 2 /\ Merging
Reversed == AddSnps(AddSnps(None, cand, posT, genoT).snps, prev, posT, genoT).snps.rows

SameCall(g, h) == g = h \/ (Len(g) = 2 /\ Len(h) = 2 /\ g = Swapped(h))
MixedLengths ==
    {r \in Common : /\ ~IsNull(Rec(Old, r).genotype)
                    /\ ~IsNull(Rec(Cnd, r).genotype)
                    /\ Len(Rec(Old, r).genotype) # Len(Rec(Cnd, r).genotype)}

(***************************************************************************)
(* C8 as stated: for two sources loaded into an empty record with D_p = 0  *)
(* and D_g = 0, loading A then B gives the same table as B then A: the     *)
(* same keys, and the same chromosome, position and genotype for every     *)
(* key.  It is stated where the thresholds are positive, as the defaults   *)
(* are, and no common rsid has calls of different lengths, so that a       *)
(* violation shows two calls that are not discrepant and differ.           *)
(***************************************************************************)
OrderIndependentExact ==
    (TwoSources /\ posT > 0 /\ genoT > 0 /\ MixedLengths = {} /\ Dp = 0 /\ Dg = 0) =>
        /\ Keys(New) = Keys(Reversed)
        /\ \A r \in Keys(New) : Rec(New, r) = Rec(Reversed, r)

(***************************************************************************)
(* C8 amended: with positive thresholds, D_p = 0, D_g = 0 and no common    *)
(* rsid with calls of different lengths, loading A then B gives the same   *)
(* keys as B then A, the same chromosome and position for every key, and   *)
(* genotypes that are equal or, for two-allele calls, equal after swapping *)
(* the alleles.                                                            *)
(***************************************************************************)
OrderIndependentUpToAlleleOrder ==
    (TwoSources /\ Dp = 0 /\ Dg = 0 /\ posT > 0 /\ genoT > 0 /\ MixedLengths = {}) =>
        /\ Keys(New) = Keys(Reversed)
        /\ \A r \in Keys(New) :
              /\ SameCoords(Rec(New, r), Rec(Reversed, r))
              /\ SameCall(Rec(New, r).genotype, Rec(Reversed, r).genotype)

\* "AC" in A and "CA" in B, a key of B only, and a genotype A lacks: the two
\* orders agree up to the allele order, which is that of the source loaded
\* first
OrderIndependentWitness ==
    /\ TwoSources
    /\ Dp = 0
    /\ Dg = 0
    /\ posT > 0
    /\ genoT > 0
    /\ MixedLengths = {}
    /\ \E r \in Common :
          /\ Rec(New, r).genotype = <<"A", "C">>
          /\ Rec(Reversed, r).genotype = <<"C", "A">>
    /\ \E r \in Keys(Old) \cup Keys(Cnd) :
          /\ r \in OnlyCnd \/ IsNull(Rec(Old, r).genotype)
          /\ ~IsNull(Rec(New, r).genotype)
          /\ Rec(New, r) = Rec(Reversed, r)

(***************************************************************************)
(* C9: after any sequence of loads, a non-null genotype of the accumulated *)
(* table is the one carried by the first applied source that had a         *)
(* non-null genotype for the rsid: a later source never makes its own      *)
(* conflicting genotype the stored value.                                  *)
(***************************************************************************)
FirstGenotypeWins ==
    snps # None =>
        \A r \in Keys(New) :
            ~IsNull(Rec(New, r).genotype) =>
                first[r].seen /\ Rec(New, r).genotype = first[r].genotype

(***************************************************************************)
(* C10: after any sequence of loads, applied, aborted or skipped, every    *)
(* rsid that an applied source contained is in the accumulated table, with *)
(* the chromosome and position of the first applied source that contained  *)
(* it.                                                                     *)
(***************************************************************************)
FirstCoordinatesPermanent ==
    /\ snps = None => \A r \in RSIDS : ~first[r].seen
    /\ snps # None =>
          /\ Keys(New) = {r \in RSIDS : first[r].seen}
          /\ \A r \in Keys(New) : SameCoords(Rec(New, r), first[r])

\* three calls, and a later applied source that carried other coordinates
\* for an rsid of the table
FirstCoordinatesWitness ==
    /\ snps # None
    /\ nloads = 3
    /\ \E r \in Keys(New) : first[r].differed /\ SameCoords(Rec(New, r), first[r])

(***************************************************************************)
(* C11: a source table loaded into an empty record and then loaded again   *)
(* gives the table that loading it once gave: the same keys, the same      *)
(* values and the same order of rows, for any thresholds.                  *)
(***************************************************************************)
ReloadIdempotent ==
    nloads >= 2 => snps = prev

(***************************************************************************)
(* The rank of the specification: numeric labels in ascending numeric      *)
(* order, then the other labels in alphabetical order, then PAR, then MT.  *)
(***************************************************************************)
CanonOrder == <<"1", "2", "10", "X", "Y", "PAR", "MT">>
CanonRank(c) == CHOOSE i \in 1..Len(CanonOrder) : CanonOrder[i] = c

(***************************************************************************)
(* C12: after any sequence of loads (adoption, applied merges, aborted     *)
(* merges, skipped files), the rows of the table, when there is one, are   *)
(* in ascending order of chromosome rank and, within a chromosome, of      *)
(* position.                                                               *)
(***************************************************************************)
CanonicalOrder ==
    snps # None =>
        \A i, j \in 1..Len(New) :
            i < j =>
                \/ CanonRank(New[i].chrom) < CanonRank(New[j].chrom)
                \/ (New[i].chrom = New[j].chrom /\ New[i].pos <= New[j].pos)

\* a merge left three rows: two of a chromosome in the order of their
\* positions, then a row on PAR or MT
CanonicalOrderWitness ==
    /\ snps # None
    /\ nloads = 2
    /\ Len(New) = 3
    /\ New[1].chrom = New[2].chrom
    /\ New[1].pos < New[2].pos
    /\ New[3].chrom \in {"PAR", "MT"}
    /\ New[1].rsid = "rs3"

(***************************************************************************)
(* C13: the rows of an adopted file follow the rank of the labels: numeric *)
(* labels first in ascending numeric order ("2" before "10"), then the     *)
(* other labels in alphabetical order, then PAR, then MT; the labels 2, 1, *)
(* 10, X, MT, PAR come out as 1, 2, 10, X, PAR, MT.                        *)
(***************************************************************************)
ChromosomeRankOrder ==
    snps # None =>
        /\ Len(New) = Len(cand.rows)
        /\ \A i, j \in 1..Len(New) :
               i < j => CanonRank(New[i].chrom) <= CanonRank(New[j].chrom)

ChromosomeRankWitness ==
    /\ snps # None
    /\ [i \in 1..Len(cand.rows) |-> cand.rows[i].chrom] = <<"2", "1", "10", "X", "MT", "PAR">>
    /\ [i \in 1..Len(New) |-> New[i].chrom] = <<"1", "2", "10", "X", "PAR", "MT">>

(***************************************************************************)
(* C14: a parsed table is normalized before it is adopted or compared.  A  *)
(* line on chromosome X with a one-allele call g counts as gg: the adopted *)
(* table holds gg, and in a merge it is gg that meets the accumulated      *)
(* two-allele call (equal: kept; different: a discrepancy, nulled when the *)
(* merge is applied).  The other lines are adopted as they were read.      *)
(***************************************************************************)
Hemizygous ==
    {r \in Keys(cand.rows) :
        Rec(cand.rows, r).chrom = "X" /\ Len(Rec(cand.rows, r).genotype) = 1}

Twice(g) == <<g[1], g[1]>>

DoublingPrecedes ==
    /\ (observed /\ prev = None /\ cand # None) =>
           /\ Keys(New) = Keys(cand.rows)
           /\ \A r \in Keys(New) :
                  Rec(New, r) =
                      IF r \in Hemizygous
                      THEN [Rec(cand.rows, r) EXCEPT !.genotype = Twice(@)]
                      ELSE Rec(cand.rows, r)
    /\ Applied =>
           \A r \in Hemizygous \cap Common :
               LET old == Rec(Old, r).genotype
               IN  Len(old) = 2 =>
                       Rec(New, r).genotype =
                           IF old = Twice(Rec(cand.rows, r).genotype) THEN old ELSE NaN

\* "A" on X met "CC": "AA" against "CC" is a discrepancy, and the genotype
\* was nulled
DoublingWitness ==
    /\ Applied
    /\ \E r \in Hemizygous \cap Common :
          /\ Rec(Old, r).genotype = <<"C", "C">>
          /\ Rec(cand.rows, r).genotype = <<"A">>
          /\ IsNull(Rec(New, r).genotype)

(***************************************************************************)
(* C17: a common rsid whose genotype is null in the accumulated table or   *)
(* in the candidate is not counted in D_g (the merge is aborted only when  *)
(* the rsids with a call on both sides reach the threshold) and is not     *)
(* nulled as discrepant: it keeps the call of the side that has one.       *)
(***************************************************************************)
NullSide ==
    {r \in Common : IsNull(Rec(Old, r).genotype) \/ IsNull(Rec(Cnd, r).genotype)}

NullsNeverConflict ==
    (Merging /\ Dp < posT) =>
        LET conflicts == {r \in Common \ NullSide :
                             Conflict(Rec(Old, r).genotype, Rec(Cnd, r).genotype)}
        IN  Cardinality(conflicts) < genoT =>
                /\ Keys(New) = Keys(Old) \cup Keys(Cnd)
                /\ \A r \in NullSide :
                       Rec(New, r).genotype =
                           IF IsNull(Rec(Old, r).genotype)
                           THEN Rec(Cnd, r).genotype
                           ELSE Rec(Old, r).genotype

\* under a genotype threshold of 1, a call met a null and a null met a call:
\* the merge went through and both calls are in the table
NullsNeverConflictWitness ==
    /\ Merging
    /\ Dp < posT
    /\ genoT = 1
    /\ \E r \in Common :
          /\ ~IsNull(Rec(Old, r).genotype)
          /\ IsNull(Rec(Cnd, r).genotype)
          /\ Rec(New, r).genotype = Rec(Old, r).genotype
    /\ \E r \in Common :
          /\ IsNull(Rec(Old, r).genotype)
          /\ ~IsNull(Rec(Cnd, r).genotype)
          /\ Rec(New, r).genotype = Rec(Cnd, r).genotype

(***************************************************************************)
(* C18: after any sequence of loads the table holds one row per rsid: no   *)
(* rsid is the label of two rows, also right after the first file was      *)
(* adopted.                                                                *)
(***************************************************************************)
UniqueKeys ==
    snps # None =>
        \A i, j \in 1..Len(New) : i # j => New[i].rsid # New[j].rsid

(***************************************************************************)
(* C15: a load over a list of files takes them in the given order, each    *)
(* against the table the one before left, and goes on after a file whose   *)
(* merge was aborted: the table it leaves is the table that loading the    *)
(* same files one per call, in the same order, leaves.                     *)
(***************************************************************************)
BatchEqualsSeparate ==
    (batch.calls = 1 /\ nloads = Len(raw_data.files)) => batch.snps = snps

\* how the _add_snps call for the i-th file of the list ends
RECURSIVE StepOf(_)
StepOf(i) ==
    AddSnps(IF i = 1 THEN None ELSE StepOf(i - 1).snps,
            ReadRawData(raw_data.files[i]), posT, genoT)

\* three files: the second aborted by a threshold, the third applied, and
\* the batch holds what the third added
BatchWitness ==
    /\ batch.calls = 1
    /\ nloads = 3
    /\ Len(raw_data.files) = 3
    /\ StepOf(2).how \in {"positions", "genotypes"}
    /\ StepOf(3).how = "merged"
    /\ StepOf(3).snps # StepOf(2).snps
    /\ batch.snps = StepOf(3).snps

(***************************************************************************)
(* C16: a file that is missing, of no recognized format or that fails to   *)
(* parse gives no table and no exception; the call leaves the table as it  *)
(* was, absent when nothing was loaded yet, and the other files of a list  *)
(* are processed as if the file were not in it.                            *)
(***************************************************************************)
SoftFailure == {"missing", "unrecognized", "malformed"}

InvalidArgumentFatal ==
    [][IF raw_data'.type \in {"str", "list"}
       THEN raised' = "none"
       ELSE raised' = "TypeError" /\ snps' = snps /\ nloads' = nloads]_vars

\* C20 as stated: every single path and every collection of paths is
\* accepted, a tuple of paths and a pathlib path among them
InvalidArgumentFatalOfPaths ==
    [][IF raw_data'.type \in {"str", "PosixPath", "list", "tuple"}
       THEN raised' = "none"
       ELSE raised' = "TypeError" /\ snps' = snps /\ nloads' = nloads]_vars

\* None was given to an Individual that has a table, and the table stayed
InvalidArgumentWitness ==
    /\ raised = "TypeError"
    /\ raw_data.type = "NoneType"
    /\ nloads > 0
    /\ snps # None
    /\ snps = prev

(***************************************************************************)
(* C19: what the snps property returns is a snapshot: a step that is not a *)
(* load, a change the reader makes to its snapshot among them, leaves      *)
(* self._snps as it was, and a load leaves the content of a snapshot taken *)
(* before it as it was.                                                    *)
(***************************************************************************)
SnapshotIsolation ==
    [][/\ nloads' = nloads => snps' = snps
       /\ (nloads' # nloads /\ held # None) =>
              (held' # None /\ held'.table = held.table)]_vars

\* a snapshot taken after the first load was written to by the reader, and a
\* second load added a row: the table has no written genotype, the snapshot
\* has no new row
SnapshotWitness ==
    /\ held # None
    /\ snps # None
    /\ nloads = 2
    /\ \E i \in 1..Len(held.table.rows) : held.table.rows[i].genotype = Written
    /\ \A j \in 1..Len(snps.rows) : snps.rows[j].genotype # Written
    /\ Len(snps.rows) > Len(held.table.rows)


(***************************************************************************)
(* C21: when a candidate is merged into an existing table and D_p = 0 and  *)
(* D_g = 0, the merge is applied whatever the thresholds are, 0 included:  *)
(* the keys of the candidate are in the table, its rows for new keys are   *)
(* the candidate's and a null genotype of a common key is filled.          *)
(***************************************************************************)
ZeroDiscrepanciesApplied ==
    (Merging /\ Dp = 0 /\ Dg = 0) =>
        /\ Keys(New) = Keys(Old) \cup Keys(Cnd)
        /\ \A r \in OnlyCnd : Rec(New, r) = Rec(Cnd, r)
        /\ \A r \in Common :
               IsNull(Rec(Old, r).genotype) =>
                   Rec(New, r).genotype = Rec(Cnd, r).genotype


(***************************************************************************)
(* C22: a common rsid whose two calls, the candidate's after hemizygous    *)
(* doubling, have lengths 1 and 2 is not among the discrepant genotypes    *)
(* the code counts, whichever side has the longer call and whether or not  *)
(* the calls share an allele; the table keeps its genotype for it.         *)
(***************************************************************************)
MixedLength ==
    {r \in Common :
        {Len(Rec(Old, r).genotype), Len(Rec(Cnd, r).genotype)} = {1, 2}}

MixedLengthsNeverDiscrepant ==
    Merging =>
        \A r \in MixedLength :
            /\ r \notin Keys(DiscrepantGenotypes(RemoveNull(CommonSnps(Old, Cnd))))
            /\ r \notin GenoDiscrepant
            /\ Rec(New, r).genotype = Rec(Old, r).genotype

\* "A" met "CC" with genoThreshold 1: counted, it would have aborted the
\* merge; the merge was applied, added a key, and "A" is still there
MixedLengthsWitness ==
    /\ Applied
    /\ genoT = 1
    /\ OnlyCnd # {}
    /\ \E r \in MixedLength :
          /\ Rec(Old, r).genotype = <<"A">>
          /\ Rec(Cnd, r).genotype = <<"C", "C">>
          /\ Rec(New, r).genotype = <<"A">>


(***************************************************************************)
(* C23: after any sequence of loads every record of the table on           *)
(* chromosome "X" whose genotype is not null has a genotype of two         *)
(* alleles.                                                                *)
(***************************************************************************)
HemizygousTwoAllele ==
    snps # None =>
        \A i \in 1..Len(snps.rows) :
            (snps.rows[i].chrom = "X" /\ ~IsNull(snps.rows[i].genotype)) =>
                Len(snps.rows[i].genotype) = 2


(***************************************************************************)
(* C24: whatever table earlier loads left, the table after a source was    *)
(* loaded twice in succession is the table after it was loaded once; a     *)
(* genotype the first load nulled as discrepant is still null.             *)
(***************************************************************************)
ReloadIdempotentFromAny == observed => snps = prev

====
